---- MODULE Spec2Model ----
(***************************************************************************)
(* The task service of scriptassist-nestjs-exercise: TasksService          *)
(* (src/src/modules/tasks/tasks.service.ts, current revision, lines        *)
(* 135-350) and the TasksController handlers that call it                  *)
(* (src/unnamed/part_001).                                                 *)
(*                                                                         *)
(* The store is the tasks table as committed transactions leave it; the    *)
(* queue is the 'task-processing' queue, which is NOT part of the database *)
(* transaction: a job added with taskQueue.add stays queued when the       *)
(* transaction around it rolls back.                                       *)
(*                                                                         *)
(* Every awaited I/O step of a method can fail; which step fails in a call *)
(* is an input of the call (a fault), chosen nondeterministically.         *)
(*                                                                         *)
(* Specifications:                                                         *)
(*   Spec         the controller's requests and the worker, from an empty  *)
(*                table;                                                   *)
(*   SpecService  update, bulkUpdateStatus and applyStatusUpdateFromQueue  *)
(*                called directly on stored tasks;                         *)
(*   SpecQuery    findAll, page after page, over any small table;          *)
(*   SpecStats    getTaskStats over any small table;                       *)
(*   SpecConc     update() calls interleaved at their awaits.              *)
(***************************************************************************)
EXTENDS Integers, Sequences, FiniteSets, TLC

\* store: the tasks table; queue: the jobs waiting on 'task-processing';
\* nextId: the id the next insert gets; lastCall: the response the caller has
\* not taken yet; calls: the update() calls in flight, each at its await
VARIABLES store, queue, nextId, lastCall, calls

vars == <<store, queue, nextId, lastCall, calls>>

-----------------------------------------------------------------------------
(* Bounds of the model.                                                    *)

\* number of tasks ever created (ids are 1..MaxTasks, never reused)
MaxTasks == 2
\* length of the id list of a bulk call
MaxIds == 3
\* jobs waiting in the queue
MaxQueue == 2

-----------------------------------------------------------------------------
(* Values.                                                                 *)

\* TaskStatus, as getTaskStats and the controller name its members
Statuses == {"PENDING", "IN_PROGRESS", "COMPLETED"}

\* the entity's default status, used when the create DTO carries none
DefaultStatus == "PENDING"

\* what a caller can pass where the parameter is declared `status: string`
\* (bulkUpdateStatus, applyStatusUpdateFromQueue): a member of TaskStatus or
\* any other string
StatusStrings == Statuses \cup {"DONE"}

\* what the status column takes: the store validates nothing
Storable == StatusStrings

\* TaskPriority
Priorities == {"LOW", "MEDIUM", "HIGH"}

\* the users that own tasks
Users == {"u1", "u2"}

\* titles a DTO can carry
Titles == {"a", "b"}

\* a DTO field that is not present (undefined)
Absent == "absent"

TaskIds == 1..MaxTasks

\* ids a request can name: MaxTasks + 1 never has a record
ReqIds == 1..(MaxTasks + 1)

CreateDtos == [title : Titles, status : Statuses \cup {Absent}]

UpdateDtos == [title : Titles \cup {Absent}, status : Statuses \cup {Absent}]

\* the id lists of bulk calls: any list, with missing and repeated ids
IdLists == UNION {[1..n -> ReqIds] : n \in 0..MaxIds}

\* batch actions a request can carry; "archive" is not a known action
BatchActions == {"complete", "delete", "archive"}

\* the awaited step of a call that fails, if one does: connect,
\* startTransaction, the store statement of the try block ("save"), the k-th
\* taskQueue.add ("publish") or commitTransaction; rb: rollbackTransaction,
\* when the catch block calls it, fails too. n: how many adds the call can make
NoFault == [at |-> "none", k |-> 1, rb |-> FALSE]

Faults(n) ==
  {NoFault}
  \cup [at : {"connect", "start"}, k : {1}, rb : {FALSE}]
  \cup [at : {"save", "commit"}, k : {1}, rb : BOOLEAN]
  \cup [at : {"publish"}, k : 1..n, rb : BOOLEAN]

\* the faults of a method that runs one store statement and no transaction
StoreFaults == {NoFault, [at |-> "save", k |-> 1, rb |-> FALSE]}

Range(s) == {s[i] : i \in DOMAIN s}

Exists(id) == id \in DOMAIN store

\* the store with record rec written under id
Put(st, id, rec) ==
  [i \in DOMAIN st \cup {id} |-> IF i = id THEN rec ELSE st[i]]

\* the store without the records of ids
Del(st, ids) == [i \in DOMAIN st \ ids |-> st[i]]

Event(id, status) == [taskId |-> id, status |-> status]

-----------------------------------------------------------------------------
(* The transaction scaffold every transactional method repeats:            *)
(*   connect; startTransaction; try { body; commit } catch { rollback;     *)
(*   throw } finally { release }.                                          *)
(* body is what the try block did before commit: ok, the error it threw,   *)
(* the store as the transaction sees it, the queue after its publishes,    *)
(* what it returns.                                                        *)

Outcome(st, q, error, txn, acquired, released, fired, ret) ==
  [store |-> st, queue |-> q, error |-> error, txn |-> txn,
   acquired |-> acquired, released |-> released, fired |-> fired, ret |-> ret]

runInTransaction(f, body) ==
  IF f.at = "connect"
    THEN \* connect() throws before the try block: nothing to release
         Outcome(store, queue, "ConnectError", "none", FALSE, FALSE, "connect", <<>>)
  ELSE IF f.at = "start"
    THEN \* startTransaction() throws before the try block: no finally runs
         Outcome(store, queue, "StartError", "none", TRUE, FALSE, "start", <<>>)
  ELSE IF body.ok /\ f.at # "commit"
    THEN Outcome(body.store, body.queue, "none", "committed", TRUE, TRUE, "none", body.ret)
  ELSE \* catch: rollbackTransaction, rethrow; finally: release
    LET err == IF body.ok THEN "CommitError" ELSE body.error
        fired == IF body.ok THEN "commit" ELSE body.fired
    IN IF f.rb
         THEN Outcome(store, body.queue, "RollbackError", "open", TRUE, TRUE, fired, <<>>)
         ELSE Outcome(store, body.queue, err, "rolledback", TRUE, TRUE, fired, <<>>)

Body(ok, error, fired, st, q, ret) ==
  [ok |-> ok, error |-> error, fired |-> fired, store |-> st, queue |-> q, ret |-> ret]

-----------------------------------------------------------------------------
(* TasksService                                                            *)

\* findOne(id): the error it throws
findOne(id) == IF Exists(id) THEN "none" ELSE "NotFound"

\* create with the event's status taken from the DTO, not from the saved task
create_dtoStatus(dto, f) ==
  LET id == nextId
      savedTask == [title |-> dto.title,
                    status |-> IF dto.status = Absent THEN DefaultStatus ELSE dto.status]
      saved == Put(store, id, savedTask)
      body ==
        IF f.at = "save"
          THEN Body(FALSE, "StoreError", "save", store, queue, <<>>)
        ELSE IF f.at = "publish"
          THEN Body(FALSE, "PublishError", "publish", saved, queue, <<>>)
        ELSE Body(TRUE, "none", "none", saved,
                  Append(queue, Event(id, dto.status)), <<id>>)
  IN runInTransaction(f, body)

\* create(createTaskDto)
create(dto, f) ==
  LET id == nextId
      savedTask == [title |-> dto.title,
                    status |-> IF dto.status = Absent THEN DefaultStatus ELSE dto.status]
      saved == Put(store, id, savedTask)
      body ==
        IF f.at = "save"
          THEN Body(FALSE, "StoreError", "save", store, queue, <<>>)
        ELSE IF f.at = "publish"
          THEN Body(FALSE, "PublishError", "publish", saved, queue, <<>>)
        ELSE Body(TRUE, "none", "none", saved,
                  Append(queue, Event(id, savedTask.status)), <<id>>)
  IN runInTransaction(f, body)

\* Object.assign with the DTO's default field values copied too: a DTO class
\* that initialises status overwrites the task's status when none was sent
assign_defaults(task, dto) ==
  [k \in DOMAIN task |->
     IF k \in DOMAIN dto
       THEN IF dto[k] # Absent THEN dto[k]
            ELSE IF k = "status" THEN DefaultStatus ELSE task[k]
       ELSE task[k]]

\* Object.assign(task, updateTaskDto): every property the DTO carries is
\* copied onto the task, whatever its name; the others stay
assign(task, dto) ==
  [k \in DOMAIN task |->
     IF k \in DOMAIN dto /\ dto[k] # Absent THEN dto[k] ELSE task[k]]

\* update as the earlier revision of the service has it: findOne, the fields
\* set one by one, repository.save with no transaction around it, and a
\* taskQueue.add that is not awaited, so that its failure reaches nobody
update_v1(id, dto, f) ==
  IF findOne(id) # "none"
    THEN Outcome(store, queue, "NotFound", "none", FALSE, FALSE, "none", <<>>)
  ELSE
    LET originalStatus == store[id].status
        updatedTask == assign(store[id], dto)
        saved == Put(store, id, updatedTask)
    IN IF f.at = "save"
         THEN Outcome(store, queue, "StoreError", "none", FALSE, FALSE, "save", <<>>)
       ELSE IF originalStatus # updatedTask.status /\ f.at # "publish"
         THEN Outcome(saved, Append(queue, Event(id, updatedTask.status)),
                      "none", "none", FALSE, FALSE, "none", <<id>>)
       ELSE Outcome(saved, queue, "none", "none", FALSE, FALSE,
                    IF originalStatus # updatedTask.status THEN "publish" ELSE "none",
                    <<id>>)

\* update publishing whenever the DTO carries a status, changed or not
update_publishIfGiven(id, dto, f) ==
  LET body ==
        IF ~Exists(id)
          THEN Body(FALSE, "NotFound", "none", store, queue, <<>>)
        ELSE
          LET updatedTask == assign(store[id], dto)
              saved == Put(store, id, updatedTask)
          IN IF f.at = "save"
               THEN Body(FALSE, "StoreError", "save", store, queue, <<>>)
             ELSE IF dto.status # Absent
               THEN IF f.at = "publish"
                      THEN Body(FALSE, "PublishError", "publish", saved, queue, <<>>)
                      ELSE Body(TRUE, "none", "none", saved,
                                Append(queue, Event(id, updatedTask.status)), <<id>>)
             ELSE Body(TRUE, "none", "none", saved, queue, <<id>>)
  IN runInTransaction(f, body)

\* update without the `if (!task)` check: Object.assign(null, ...) throws a
\* TypeError where the NotFoundException was meant
update_noNullCheck(id, dto, f) ==
  LET body ==
        IF ~Exists(id)
          THEN Body(FALSE, "TypeError", "none", store, queue, <<>>)
        ELSE
          LET originalStatus == store[id].status
              updatedTask == assign(store[id], dto)
              saved == Put(store, id, updatedTask)
          IN IF f.at = "save"
               THEN Body(FALSE, "StoreError", "save", store, queue, <<>>)
             ELSE IF originalStatus # updatedTask.status
               THEN IF f.at = "publish"
                      THEN Body(FALSE, "PublishError", "publish", saved, queue, <<>>)
                      ELSE Body(TRUE, "none", "none", saved,
                                Append(queue, Event(id, updatedTask.status)), <<id>>)
             ELSE Body(TRUE, "none", "none", saved, queue, <<id>>)
  IN runInTransaction(f, body)

\* update(id, updateTaskDto)
update(id, dto, f) ==
  LET body ==
        IF ~Exists(id)
          THEN Body(FALSE, "NotFound", "none", store, queue, <<>>)
        ELSE
          LET originalStatus == store[id].status
              updatedTask == assign(store[id], dto)
              saved == Put(store, id, updatedTask)
          IN IF f.at = "save"
               THEN Body(FALSE, "StoreError", "save", store, queue, <<>>)
             ELSE IF originalStatus # updatedTask.status
               THEN IF f.at = "publish"
                      THEN Body(FALSE, "PublishError", "publish", saved, queue, <<>>)
                      ELSE Body(TRUE, "none", "none", saved,
                                Append(queue, Event(id, updatedTask.status)), <<id>>)
             ELSE Body(TRUE, "none", "none", saved, queue, <<id>>)
  IN runInTransaction(f, body)

\* a find that returns one row per id of ids, repeated ids included
FindIn_perId(ids) == {SelectSeq(ids, Exists)}

\* the rows find(Task, {where: {id: In(ids)}}) can return: each existing task
\* named in ids once, in an order the query does not fix
FindIn(ids) ==
  LET found == {i \in Range(ids) : Exists(i)}
  IN {s \in [1..Cardinality(found) -> found] : Range(s) = found}

\* the events the publish loop adds for tasks 1..n of updatedTasks
RECURSIVE Published(_, _, _)
Published(updatedTasks, status, n) ==
  IF n = 0 THEN <<>>
  ELSE Append(Published(updatedTasks, status, n - 1), Event(updatedTasks[n], status))

\* bulkUpdateStatus with the update sent through the repository, outside the
\* query runner's transaction: the rollback does not undo it
bulkUpdateStatus_outsideTx(ids, status, updatedTasks, f) ==
  LET updated == [i \in DOMAIN store |->
                    IF i \in Range(ids) THEN [store[i] EXCEPT !.status = status]
                    ELSE store[i]]
      n == Len(updatedTasks)
      r == IF f.at = "save"
             THEN runInTransaction(f, Body(FALSE, "StoreError", "save", store, queue, <<>>))
           ELSE IF f.at = "publish" /\ f.k <= n
             THEN runInTransaction(f, Body(FALSE, "PublishError", "publish", updated,
                    queue \o Published(updatedTasks, status, f.k - 1), <<>>))
           ELSE runInTransaction(f, Body(TRUE, "none", "none", updated,
                    queue \o Published(updatedTasks, status, n), updatedTasks))
  IN IF f.at \in {"connect", "start", "save"} THEN r ELSE [r EXCEPT !.store = updated]

\* bulkUpdateStatus(ids, status); updatedTasks is what its find returns
bulkUpdateStatus(ids, status, updatedTasks, f) ==
  LET updated == [i \in DOMAIN store |->
                    IF i \in Range(ids) THEN [store[i] EXCEPT !.status = status]
                    ELSE store[i]]
      n == Len(updatedTasks)
      body ==
        IF f.at = "save"
          THEN Body(FALSE, "StoreError", "save", store, queue, <<>>)
        ELSE IF f.at = "publish" /\ f.k <= n
          THEN Body(FALSE, "PublishError", "publish", updated,
                    queue \o Published(updatedTasks, status, f.k - 1), <<>>)
        ELSE Body(TRUE, "none", "none", updated,
                  queue \o Published(updatedTasks, status, n), updatedTasks)
  IN runInTransaction(f, body)

\* remove(id): one delete by criteria, outside any transaction
remove(id, f) ==
  IF f.at = "save"
    THEN Outcome(store, queue, "StoreError", "none", FALSE, FALSE, "save", <<>>)
    ELSE Outcome(Del(store, {id}), queue, "none", "none", FALSE, FALSE, "none", <<>>)

\* bulkDelete announcing each deleted task on the queue
bulkDelete_publish(ids, f) ==
  LET gone == SelectSeq(ids, Exists)
      body ==
        IF f.at = "save"
          THEN Body(FALSE, "StoreError", "save", store, queue, <<>>)
          ELSE Body(TRUE, "none", "none", Del(store, Range(ids)),
                    queue \o Published(gone, "COMPLETED", Len(gone)), <<>>)
  IN runInTransaction(f, body)

\* bulkDelete(ids)
bulkDelete(ids, f) ==
  LET body ==
        IF f.at = "save"
          THEN Body(FALSE, "StoreError", "save", store, queue, <<>>)
          ELSE Body(TRUE, "none", "none", Del(store, Range(ids)), queue, <<>>)
  IN runInTransaction(f, body)

\* applyStatusUpdateFromQueue(id, status): findOne, then save, no transaction
applyStatusUpdateFromQueue(id, status, f) ==
  IF findOne(id) # "none"
    THEN Outcome(store, queue, "NotFound", "none", FALSE, FALSE, "none", <<>>)
  ELSE IF f.at = "save"
    THEN Outcome(store, queue, "StoreError", "none", FALSE, FALSE, "save", <<>>)
  ELSE Outcome(Put(store, id, [store[id] EXCEPT !.status = status]), queue,
               "none", "none", FALSE, FALSE, "none", <<id>>)
-----------------------------------------------------------------------------
(* TasksController                                                         *)

\* the status Nest answers with: the handler's success status, 404 for a
\* NotFoundException, 500 for any other error
HttpOf(error, success) ==
  IF error = "none" THEN success
  ELSE IF error = "NotFound" THEN 404
  ELSE 500

\* `const task = this.tasksService.findOne(id)` is not awaited: task is a
\* Promise, `!task` is false whatever the id, and the promise's rejection
\* (no record) is handled by nobody
unhandledFindOne(id) == findOne(id) # "none"

Response(r, http, affected, unhandled) ==
  [r |-> r, http |-> http, affected |-> affected, unhandled |-> unhandled]

\* PATCH /tasks/:id
TasksController_update(id, dto, f) ==
  LET r == update(id, dto, f)
  IN Response(r, HttpOf(r.error, 200), 0, unhandledFindOne(id))

\* DELETE /tasks/:id
TasksController_remove(id, f) ==
  LET r == remove(id, f)
  IN Response(r, HttpOf(r.error, 200), 0, unhandledFindOne(id))

\* POST /tasks/batch: every error thrown in the try block, the 400 of the
\* default case included, is caught and rethrown as a 500
batchProcess(ids, action, updatedTasks, f) ==
  IF action = "complete"
    THEN LET r == bulkUpdateStatus(ids, "COMPLETED", updatedTasks, f)
         IN Response(r, IF r.error = "none" THEN 201 ELSE 500, Len(r.ret), FALSE)
  ELSE IF action = "delete"
    THEN LET r == bulkDelete(ids, f)
         IN Response(r, IF r.error = "none" THEN 201 ELSE 500, 0, FALSE)
  ELSE Response(Outcome(store, queue, "UnknownAction", "none", FALSE, FALSE, "none", <<>>),
                500, 0, FALSE)

-----------------------------------------------------------------------------
(* The state machine. A request is one step: the handler runs to its end   *)
(* and leaves its response in lastCall; the next step hands the response   *)
(* to the caller. Requests are served one after the other.                 *)

\* what the call just served did
Call(op, resp) ==
  [op |-> op, error |-> resp.r.error, http |-> resp.http, fired |-> resp.r.fired,
   txn |-> resp.r.txn, acquired |-> resp.r.acquired, released |-> resp.r.released,
   published |-> Len(resp.r.queue) - Len(queue), affected |-> resp.affected,
   unhandled |-> resp.unhandled]

NoCall ==
  [op |-> "idle", error |-> "none", http |-> 0, fired |-> "none", txn |-> "none",
   acquired |-> FALSE, released |-> FALSE, published |-> 0, affected |-> 0,
   unhandled |-> FALSE]

Idle == lastCall = NoCall

Init ==
  /\ store = [i \in {} |-> [title |-> "a", status |-> DefaultStatus]]
  /\ queue = <<>>
  /\ nextId = 1
  /\ lastCall = NoCall
  /\ calls = <<>>

\* the new state after a call whose outcome is resp
Apply(op, resp) ==
  /\ Idle
  /\ Len(resp.r.queue) <= MaxQueue
  /\ store' = resp.r.store
  /\ queue' = resp.r.queue
  /\ lastCall' = Call(op, resp)
  /\ UNCHANGED calls

\* POST /tasks -> create
Create(dto, f) ==
  /\ nextId <= MaxTasks
  /\ LET r == create(dto, f)
     IN /\ Apply("create", Response(r, HttpOf(r.error, 201), 0, FALSE))
        /\ nextId' = IF r.fired \in {"connect", "start", "save"} THEN nextId ELSE nextId + 1

\* PATCH /tasks/:id -> update
Update(id, dto, f) ==
  /\ Apply("update", TasksController_update(id, dto, f))
  /\ UNCHANGED nextId

\* DELETE /tasks/:id -> remove
Remove(id, f) ==
  /\ Apply("remove", TasksController_remove(id, f))
  /\ UNCHANGED nextId

\* bulkUpdateStatus called with any status
BulkUpdateStatus(ids, status, updatedTasks, f) ==
  /\ LET r == bulkUpdateStatus(ids, status, updatedTasks, f)
     IN Apply("bulkUpdateStatus", Response(r, 0, Len(r.ret), FALSE))
  /\ UNCHANGED nextId

\* bulkDelete
BulkDelete(ids, f) ==
  /\ LET r == bulkDelete(ids, f)
     IN Apply("bulkDelete", Response(r, 0, 0, FALSE))
  /\ UNCHANGED nextId

\* POST /tasks/batch
BatchProcess(ids, action, updatedTasks, f) ==
  /\ Apply("batch:" \o action, batchProcess(ids, action, updatedTasks, f))
  /\ UNCHANGED nextId

\* the task processor takes the oldest job and applies it
ProcessJob(f) ==
  /\ Idle
  /\ queue # <<>>
  /\ LET job == Head(queue)
         r == applyStatusUpdateFromQueue(job.taskId, job.status, f)
     IN /\ store' = r.store
        /\ queue' = Tail(queue)
        /\ lastCall' = [Call("applyStatusUpdateFromQueue", Response(r, 0, 0, FALSE))
                          EXCEPT !.published = 0]
  /\ UNCHANGED <<nextId, calls>>

\* the caller takes the response
Respond ==
  /\ ~Idle
  /\ lastCall' = NoCall
  /\ UNCHANGED <<store, queue, nextId, calls>>

\* The requests that can arrive, each with every input it can carry. A
\* request is served when the caller holds no response.
PostTask == Idle /\ \E dto \in CreateDtos, f \in Faults(1) : Create(dto, f)

PatchTask ==
  Idle /\ \E id \in ReqIds, dto \in UpdateDtos, f \in Faults(1) : Update(id, dto, f)

DeleteTask == Idle /\ \E id \in ReqIds, f \in StoreFaults : Remove(id, f)

CallBulkUpdateStatus ==
  Idle /\ \E ids \in IdLists, st \in Statuses, f \in Faults(MaxTasks) :
            \E ut \in FindIn(ids) : BulkUpdateStatus(ids, st, ut, f)

CallBulkDelete == Idle /\ \E ids \in IdLists, f \in Faults(0) : BulkDelete(ids, f)

PostBatchComplete ==
  Idle /\ \E ids \in IdLists, f \in Faults(MaxTasks) :
            \E ut \in FindIn(ids) : BatchProcess(ids, "complete", ut, f)

PostBatchDelete ==
  Idle /\ \E ids \in IdLists, f \in Faults(0) : BatchProcess(ids, "delete", <<>>, f)

PostBatchUnknown ==
  Idle /\ \E ids \in IdLists, a \in BatchActions \ {"complete", "delete"} :
            BatchProcess(ids, a, <<>>, NoFault)

Worker == Idle /\ \E f \in StoreFaults : ProcessJob(f)

Next ==
  \/ PostTask
  \/ PatchTask
  \/ DeleteTask
  \/ CallBulkUpdateStatus
  \/ CallBulkDelete
  \/ PostBatchComplete
  \/ PostBatchDelete
  \/ PostBatchUnknown
  \/ Worker
  \/ Respond

Spec == Init /\ [][Next]_vars

-----------------------------------------------------------------------------
(* The service called directly, on tasks that exist already. The methods   *)
(* take every argument of the type their signature declares: update takes  *)
(* an UpdateTaskDto, bulkUpdateStatus and applyStatusUpdateFromQueue take  *)
(* `status: string`. The tasks carry the columns the service never names   *)
(* in an assignment: priority, userId, createdAt.                          *)

\* two tasks of two users, created one after the other
Seed ==
  <<[title |-> "a", status |-> "PENDING", priority |-> "MEDIUM",
     userId |-> "u1", createdAt |-> 1],
    [title |-> "a", status |-> "IN_PROGRESS", priority |-> "HIGH",
     userId |-> "u2", createdAt |-> 2]>>

\* an UpdateTaskDto that inherits the create DTO's userId
PartialDtos_withOwner ==
  [title : {"b", Absent}, status : Statuses \cup {Absent}, priority : {"HIGH", Absent},
   userId : Users \cup {Absent}]

\* UpdateTaskDto: the fields update() reads from it, each optional
PartialDtos ==
  [title : {"b", Absent}, status : Statuses \cup {Absent}, priority : {"HIGH", Absent}]

ServiceInit ==
  /\ store = Seed
  /\ queue = <<>>
  /\ nextId = Len(Seed) + 1
  /\ lastCall = NoCall
  /\ calls = <<>>

CallUpdate ==
  Idle /\ \E id \in ReqIds, dto \in PartialDtos :
            /\ Apply("update", Response(update(id, dto, NoFault), 0, 0, FALSE))
            /\ UNCHANGED nextId

CallBulkUpdateStatusAny ==
  Idle /\ \E ids \in IdLists, st \in StatusStrings :
            \E ut \in FindIn(ids) :
              /\ st \in Storable
              /\ BulkUpdateStatus(ids, st, ut, NoFault)

CallApplyStatusUpdate ==
  Idle /\ \E id \in ReqIds, st \in StatusStrings :
            /\ st \in Storable
            /\ Apply("applyStatusUpdateFromQueue",
                     Response(applyStatusUpdateFromQueue(id, st, NoFault), 0, 0, FALSE))
            /\ UNCHANGED nextId

ServiceNext ==
  \/ CallUpdate
  \/ CallBulkUpdateStatusAny
  \/ CallApplyStatusUpdate
  \/ Worker
  \/ Respond

SpecService == ServiceInit /\ [][ServiceNext]_vars

-----------------------------------------------------------------------------
(* The read side: findAll and getTaskStats over a table that does not      *)
(* change. A text (title, description, search term) is the sequence of its *)
(* characters.                                                             *)

\* rows in the table
MaxRows == 2

\* a description that is NULL
Null == "null"

RowTitles == {<<"a", "b">>, <<"B">>}

RowDescriptions == {Null, <<"b", "a">>}

\* what a row holds besides its creation time
QueryRows ==
  [title : RowTitles, description : RowDescriptions, status : Statuses,
   priority : Priorities, userId : Users]

\* the row r, created as the i-th
Row(r, i) ==
  [title |-> r.title, description |-> r.description, status |-> r.status,
   priority |-> r.priority, userId |-> r.userId, createdAt |-> i]

\* a date filter that is not given
NoDate == 0

\* filter.search values: none (undefined or ''), terms of one and two
\* characters, in either case, and a term that is a LIKE wildcard
SearchTerms == {<<>>, <<"a">>, <<"B">>, <<"b", "a">>, <<"a", "a">>, <<"_">>}

\* TaskFilterDto: every field optional (filter.userId is never read)
TaskFilters ==
  [status : Statuses \cup {Absent}, priority : Priorities \cup {Absent},
   search : SearchTerms,
   fromDate : (1..MaxRows) \cup {NoDate}, toDate : (1..MaxRows) \cup {NoDate}]

\* the filters of a client that pages through a listing
ListFilters ==
  {f \in TaskFilters : f.priority = Absent /\ f.search = <<>>
                         /\ f.fromDate = NoDate /\ f.toDate = NoDate}

PageSizes == 1..MaxRows


Lower(c) == IF c = "A" THEN "a" ELSE IF c = "B" THEN "b" ELSE c

\* text LIKE pattern, case-insensitively: % matches any run of characters,
\* _ any one character, every other character itself
RECURSIVE Like(_, _)
Like(text, pattern) ==
  IF pattern = <<>> THEN text = <<>>
  ELSE IF Head(pattern) = "%"
    THEN Like(text, Tail(pattern)) \/ (text # <<>> /\ Like(Tail(text), pattern))
  ELSE /\ text # <<>>
       /\ (Head(pattern) = "_" \/ Lower(Head(pattern)) = Lower(Head(text)))
       /\ Like(Tail(text), Tail(pattern))

\* column ILIKE pattern; NULL ILIKE anything is not true
ILike(column, pattern) == column # Null /\ Like(column, pattern)

\* the WHERE clause findAll builds: a condition for each filter field that
\* is truthy
Where(task, userId, filter) ==
  /\ task.userId = userId
  /\ filter.status # Absent => task.status = filter.status
  /\ filter.priority # Absent => task.priority = filter.priority
  /\ filter.fromDate # NoDate => task.createdAt >= filter.fromDate
  /\ filter.toDate # NoDate => task.createdAt <= filter.toDate
  /\ filter.search # <<>> =>
       LET search == <<"%">> \o filter.search \o <<"%">>
       IN ILike(task.title, search) \/ ILike(task.description, search)

\* the rows the query selects
Selected(userId, filter) == {i \in DOMAIN store : Where(store[i], userId, filter)}

\* the orders in which the database can produce them: the query has no
\* ORDER BY, so any order, and not the same one from one execution to the next
RowOrders(userId, filter) ==
  LET sel == Selected(userId, filter)
  IN {s \in [1..Cardinality(sel) -> sel] : Range(s) = sel}

\* OFFSET skip LIMIT take of rows
SkipTake(rows, skip, take) ==
  LET left == IF Len(rows) > skip THEN Len(rows) - skip ELSE 0
      n == IF left < take THEN left ELSE take
  IN [i \in 1..n |-> rows[skip + i]]

\* findAll(userId, currentPage, pageSize, filter); rows: the selected rows in
\* the order this execution of the query produces them
findAll(userId, currentPage, pageSize, filter, rows) ==
  SkipTake(rows, (currentPage - 1) * pageSize, pageSize)

\* COUNT(*) FILTER (WHERE task.<column> = value) over rows 1..n
RECURSIVE CountFilter(_, _, _)
CountFilter(column, value, n) ==
  IF n = 0 THEN 0
  ELSE CountFilter(column, value, n - 1) + (IF store[n][column] = value THEN 1 ELSE 0)

\* getTaskStats with highPriority counted among the tasks of one user
getTaskStats_perUser ==
  LET n == Cardinality(DOMAIN store)
      mine == {i \in DOMAIN store : store[i].userId = "u1"}
  IN [total |-> n,
      completed |-> CountFilter("status", "COMPLETED", n),
      inProgress |-> CountFilter("status", "IN_PROGRESS", n),
      pending |-> CountFilter("status", "PENDING", n),
      highPriority |-> Cardinality({i \in mine : store[i].priority = "HIGH"})]

\* getTaskStats(): one SELECT of five aggregates over the whole table
getTaskStats ==
  LET n == Cardinality(DOMAIN store)
  IN [total |-> n,
      completed |-> CountFilter("status", "COMPLETED", n),
      inProgress |-> CountFilter("status", "IN_PROGRESS", n),
      pending |-> CountFilter("status", "PENDING", n),
      highPriority |-> CountFilter("priority", "HIGH", n)]

\* any table of at most MaxRows rows
QueryInit ==
  /\ \E n \in 0..MaxRows :
       \E rs \in [1..n -> QueryRows] : store = [i \in 1..n |-> Row(rs[i], i)]
  /\ queue = <<>>
  /\ nextId = Cardinality(DOMAIN store) + 1
  /\ lastCall = NoCall
  /\ calls = <<>>

\* a client asks for page 1 of a listing
FirstPage ==
  Idle /\ \E userId \in Users, pageSize \in PageSizes, filter \in ListFilters :
            \E rows \in RowOrders(userId, filter) :
              /\ lastCall' = [op |-> "findAll", userId |-> userId, pageSize |-> pageSize,
                              filter |-> filter,
                              pages |-> <<findAll(userId, 1, pageSize, filter, rows)>>]
              /\ UNCHANGED <<store, queue, nextId, calls>>

\* the pages the client has are all full: it asks for the next one
NextPage ==
  /\ lastCall.op = "findAll"
  /\ Len(lastCall.pages[Len(lastCall.pages)]) = lastCall.pageSize
  /\ \E rows \in RowOrders(lastCall.userId, lastCall.filter) :
       lastCall' = [lastCall EXCEPT !.pages =
                      Append(@, findAll(lastCall.userId, Len(lastCall.pages) + 1,
                                        lastCall.pageSize, lastCall.filter, rows))]
  /\ UNCHANGED <<store, queue, nextId, calls>>

\* GET /tasks/stats
GetTaskStats ==
  /\ Idle
  /\ lastCall' = [op |-> "getTaskStats", stats |-> getTaskStats]
  /\ UNCHANGED <<store, queue, nextId, calls>>

QueryNext ==
  \/ FirstPage
  \/ NextPage
  \/ Respond

SpecQuery == QueryInit /\ [][QueryNext]_vars

StatsNext ==
  \/ GetTaskStats
  \/ Respond

SpecStats == QueryInit /\ [][StatsNext]_vars

-----------------------------------------------------------------------------
(* update() calls that run at the same time on one task. A call gives up   *)
(* control at each await: findOne, save, taskQueue.add, commitTransaction. *)
(* The database is at READ COMMITTED: a statement sees what is committed   *)
(* when it runs; an UPDATE of a row that another open transaction has      *)
(* written waits for that transaction to end.                              *)

\* update() calls in flight together
MaxCalls == 2

Callers == 1..MaxCalls

\* the task the calls update
TheTask == 1

\* a call that has not started
NotStarted ==
  [pc |-> "start", dto |-> [status |-> Absent], task |-> <<>>,
   originalStatus |-> Absent, wrote |-> FALSE, changed |-> FALSE]

ConcInit ==
  /\ store = <<Seed[1]>>
  /\ queue = <<>>
  /\ nextId = 2
  /\ lastCall = NoCall
  /\ calls = [c \in Callers |-> NotStarted]

\* connect, startTransaction
Begin(c) ==
  /\ calls[c].pc = "start"
  /\ \E dto \in PartialDtos :
       calls' = [calls EXCEPT ![c].pc = "findOne", ![c].dto = dto]
  /\ UNCHANGED <<store, queue, nextId, lastCall>>

\* task = findOne(...); originalStatus = task.status; Object.assign(task, dto)
FindOne(c) ==
  /\ calls[c].pc = "findOne"
  /\ calls' = [calls EXCEPT ![c].pc = "save",
                            ![c].originalStatus = store[TheTask].status,
                            ![c].task = assign(store[TheTask], calls[c].dto)]
  /\ UNCHANGED <<store, queue, nextId, lastCall>>

\* updatedTask = save(task): save reads the row again and writes the columns
\* in which the entity differs from it, if there are any; the write waits
\* while another call's write to the row is not committed
Save(c) ==
  /\ calls[c].pc = "save"
  /\ \A d \in Callers \ {c} : ~(calls[d].wrote /\ calls[d].pc \in {"add", "commit"})
  /\ calls' = [calls EXCEPT
       ![c].pc = IF calls[c].originalStatus # calls[c].task.status
                   THEN "add" ELSE "commit",
       ![c].wrote = calls[c].task # store[TheTask]]
  /\ UNCHANGED <<store, queue, nextId, lastCall>>

\* taskQueue.add('task-status-update', {taskId, status})
Add(c) ==
  /\ calls[c].pc = "add"
  /\ queue' = Append(queue, Event(TheTask, calls[c].task.status))
  /\ calls' = [calls EXCEPT ![c].pc = "commit"]
  /\ UNCHANGED <<store, nextId, lastCall>>

\* commitTransaction: the write, if the call made one, becomes the row
Commit(c) ==
  /\ calls[c].pc = "commit"
  /\ store' = IF calls[c].wrote THEN Put(store, TheTask, calls[c].task) ELSE store
  /\ calls' = [calls EXCEPT
       ![c].pc = "done",
       ![c].changed = calls[c].wrote /\ calls[c].task.status # store[TheTask].status]
  /\ UNCHANGED <<queue, nextId, lastCall>>

Begins == \E c \in Callers : Begin(c)

FindOnes == \E c \in Callers : FindOne(c)

Saves == \E c \in Callers : Save(c)

Adds == \E c \in Callers : Add(c)

Commits == \E c \in Callers : Commit(c)

ConcNext ==
  \/ Begins
  \/ FindOnes
  \/ Saves
  \/ Adds
  \/ Commits

SpecConc == ConcInit /\ [][ConcNext]_vars

-----------------------------------------------------------------------------
(* Properties. Each is stated of every state in which a request can be     *)
(* served, for every input the request can carry.                          *)

\* the events a call added to the queue q0, given the queue q1 it left
Added(q0, q1) == SubSeq(q1, Len(q0) + 1, Len(q1))

\* st0 and st1 hold the same records except under the ids of but
SameExcept(st0, st1, but) ==
  /\ DOMAIN st1 \ but = DOMAIN st0 \ but
  /\ \A i \in DOMAIN st0 \ but : st1[i] = st0[i]

\* C1: a create() that returns successfully leaves exactly one new record in
\* the store and exactly one queued event, whose taskId and status are those
\* of the stored record; if the publish step fails, create() fails and the
\* store holds no record for the attempt.
C1_CreateAtomic ==
  (Idle /\ nextId <= MaxTasks) =>
    \A dto \in CreateDtos, f \in Faults(1) :
      LET r == create(dto, f)
          id == nextId
      IN /\ r.error = "none" =>
              /\ id \notin DOMAIN store
              /\ DOMAIN r.store = DOMAIN store \cup {id}
              /\ SameExcept(store, r.store, {id})
              /\ r.store[id].title = dto.title
              /\ r.store[id].status \in Statuses
              /\ r.queue = Append(queue, Event(id, r.store[id].status))
         /\ f.at = "publish" =>
              /\ r.error # "none"
              /\ r.store = store
              /\ id \notin DOMAIN r.store

C1_Witness ==
  /\ lastCall.op = "create"
  /\ lastCall.error = "none"
  /\ lastCall.published = 1
  /\ (nextId - 1) \in DOMAIN store
  /\ queue[Len(queue)] = Event(nextId - 1, store[nextId - 1].status)

\* C2: whenever create, update or bulkUpdateStatus reports a failure, the call
\* has left nothing behind, in the store or on the queue: no event is queued
\* for a write that did not commit.
C2_NoEffectOnFailure ==
  (lastCall.op \in {"create", "update", "bulkUpdateStatus"} /\ lastCall.error # "none")
    => lastCall.published = 0

\* C3: if the publisher fails during update() of an existing task whose status
\* the update changes, the update reports failure and the store is as it was
\* before the call.
C3_UpdateRollback ==
  Idle =>
    \A id \in DOMAIN store, dto \in UpdateDtos, f \in Faults(1) :
      (f.at = "publish" /\ dto.status # Absent /\ dto.status # store[id].status) =>
        LET resp == TasksController_update(id, dto, f)
        IN /\ resp.r.error # "none"
           /\ resp.http = 500
           /\ resp.r.store = store

C3_Witness ==
  /\ lastCall.op = "update"
  /\ lastCall.fired = "publish"
  /\ lastCall.http = 500

\* C4: a successful update() of an existing task publishes no event when the
\* task's status after it equals its status before, and exactly one event,
\* with the task's id and its new status, when the status differs.
C4_UpdatePublishes ==
  Idle =>
    \A id \in DOMAIN store, dto \in UpdateDtos, f \in Faults(1) :
      LET r == update(id, dto, f)
      IN r.error = "none" =>
           /\ id \in DOMAIN r.store
           /\ r.queue = IF r.store[id].status = store[id].status
                          THEN queue
                          ELSE Append(queue, Event(id, r.store[id].status))

C4_Witness ==
  /\ lastCall.op = "update"
  /\ lastCall.error = "none"
  /\ lastCall.published = 1

\* C5: if any one publish fails during bulkUpdateStatus(ids, status), the call
\* fails and the store is as it was before the call: every task keeps its
\* status.
C5_BulkRollback ==
  Idle =>
    \A ids \in IdLists, st \in Statuses, f \in Faults(MaxTasks) :
      \A ut \in FindIn(ids) :
        (f.at = "publish" /\ f.k <= Len(ut)) =>
          LET r == bulkUpdateStatus(ids, st, ut, f)
          IN /\ r.error # "none"
             /\ r.store = store
             /\ batchProcess(ids, "complete", ut, f).http = 500

C5_Witness ==
  /\ lastCall.op = "bulkUpdateStatus"
  /\ lastCall.fired = "publish"
  /\ lastCall.published = 1
  /\ lastCall.error # "none"

\* C6: a successful bulkUpdateStatus(ids, status), whatever ids holds, sets the
\* status of every existing task named in ids and changes nothing else,
\* publishes exactly one event with the new status for each such task, changed
\* or not, and publishes nothing for an id with no record.
C6_BulkSuccess ==
  Idle =>
    \A ids \in IdLists, st \in Statuses, f \in Faults(MaxTasks) :
      \A ut \in FindIn(ids) :
        LET r == bulkUpdateStatus(ids, st, ut, f)
            new == Added(queue, r.queue)
        IN r.error = "none" =>
             /\ DOMAIN r.store = DOMAIN store
             /\ SameExcept(store, r.store, Range(ids))
             /\ \A i \in Range(ids) \cap DOMAIN store :
                  r.store[i] = [store[i] EXCEPT !.status = st]
             /\ SubSeq(r.queue, 1, Len(queue)) = queue
             /\ \A i \in ReqIds :
                  Cardinality({j \in DOMAIN new : new[j].taskId = i})
                    = IF i \in Range(ids) /\ Exists(i) THEN 1 ELSE 0
             /\ \A j \in DOMAIN new : new[j].status = st

C6_Witness ==
  /\ lastCall.op = "bulkUpdateStatus"
  /\ lastCall.error = "none"
  /\ lastCall.published = 2
  /\ lastCall.affected = 2

\* C7: a delete of an id that has no record (the second delete of a task, for
\* one) yields NotFound.
C7_DeleteMissingNotFound ==
  (lastCall.op = "remove" /\ lastCall.unhandled /\ lastCall.fired = "none")
    => (lastCall.error = "NotFound" /\ lastCall.http = 404)

\* C8: a batch request whose action is neither "complete" nor "delete" is
\* answered with a 400.
C8_UnknownActionIs400 ==
  lastCall.error = "UnknownAction" => lastCall.http = 400

\* C9: update() of an id that has no record writes nothing to the store,
\* publishes no event and fails; where connect, startTransaction and
\* rollbackTransaction do not fail themselves, the failure is NotFound (a 404)
\* and the transaction is rolled back.
C9_UpdateMissing ==
  Idle =>
    \A id \in ReqIds \ DOMAIN store, dto \in UpdateDtos, f \in Faults(1) :
      LET resp == TasksController_update(id, dto, f)
      IN /\ resp.r.store = store
         /\ resp.r.queue = queue
         /\ resp.r.error # "none"
         /\ (f.at \notin {"connect", "start"} /\ ~f.rb) =>
              /\ resp.r.error = "NotFound"
              /\ resp.http = 404
              /\ resp.r.txn = "rolledback"

C9_Witness ==
  /\ lastCall.op = "update"
  /\ lastCall.error = "NotFound"
  /\ lastCall.http = 404
  /\ lastCall.txn = "rolledback"
  /\ store # <<>>

\* C10: remove() and bulkDelete() only delete records: every record they leave
\* is as it was, and the queue is unchanged, whether they succeed or fail.
C10_DeleteNoPublish ==
  Idle =>
    /\ \A id \in ReqIds, f \in StoreFaults :
         LET r == TasksController_remove(id, f).r
         IN /\ r.queue = queue
            /\ DOMAIN r.store \subseteq DOMAIN store
            /\ \A i \in DOMAIN r.store : r.store[i] = store[i]
    /\ \A ids \in IdLists, f \in Faults(0) :
         LET r == batchProcess(ids, "delete", <<>>, f).r
         IN /\ r = bulkDelete(ids, f)
            /\ r.queue = queue
            /\ DOMAIN r.store \subseteq DOMAIN store
            /\ \A i \in DOMAIN r.store : r.store[i] = store[i]

C10_Witness ==
  /\ lastCall.op = "bulkDelete"
  /\ lastCall.txn = "committed"
  /\ nextId > MaxTasks
  /\ DOMAIN store = {}
  /\ Len(queue) = MaxQueue

-----------------------------------------------------------------------------
(* Properties of the service called directly (SpecService).                *)

C12_UpdateFrame ==
  Idle =>
    \A id \in DOMAIN store, dto \in PartialDtos, f \in Faults(1) :
      LET r == update(id, dto, f)
      IN r.error = "none" =>
           /\ SameExcept(store, r.store, {id})
           /\ id \in DOMAIN r.store
           /\ DOMAIN r.store[id] = DOMAIN store[id]
           /\ \A k \in DOMAIN store[id] :
                r.store[id][k] = IF k \in DOMAIN dto /\ dto[k] # Absent
                                   THEN dto[k]
                                   ELSE store[id][k]

C12_Witness ==
  /\ lastCall.op = "update"
  /\ lastCall.error = "none"
  /\ lastCall.published = 1
  /\ store[1] = [Seed[1] EXCEPT !.status = "COMPLETED"]
  /\ store[2] = Seed[2]

\* the ids, the creation times and the owners are those of st0
SameIdentity(st0, st1) ==
  /\ DOMAIN st1 = DOMAIN st0
  /\ \A i \in DOMAIN st0 :
       /\ st1[i].createdAt = st0[i].createdAt
       /\ st1[i].userId = st0[i].userId

-----------------------------------------------------------------------------
(* Properties of the read side (SpecQuery, SpecStats).                     *)

\* the pages of a listing, one after the other
RECURSIVE Flatten(_)
Flatten(pages) ==
  IF pages = <<>> THEN <<>> ELSE Head(pages) \o Flatten(Tail(pages))

\* the rows of sel from the first created to the last
CreationOrder(sel) ==
  CHOOSE s \in [1..Cardinality(sel) -> sel] :
    /\ Range(s) = sel
    /\ \A i, j \in DOMAIN s : i < j => store[s[i]].createdAt < store[s[j]].createdAt

\* C14: for a fixed store, user, filter and pageSize, the pages 1, 2, 3, ...
\* that findAll returns partition the matching records: read one after the
\* other up to the first page that is not full, they hold every matching
\* record exactly once, in creation order.
C14_PagesPartition ==
  (lastCall.op = "findAll"
     /\ Len(lastCall.pages[Len(lastCall.pages)]) < lastCall.pageSize)
    => Flatten(lastCall.pages)
         = CreationOrder(Selected(lastCall.userId, lastCall.filter))

\* term occurs in text, whatever the case of the letters
Contains(text, term) ==
  /\ text # Null
  /\ \E k \in 0..Len(text) :
       /\ k + Len(term) <= Len(text)
       /\ \A j \in 1..Len(term) : Lower(text[k + j]) = Lower(term[j])

\* C15: findAll returns only tasks of the requesting user that satisfy every
\* filter field that is present: status equal, priority equal, createdAt
\* from fromDate on and up to toDate, and the search term contained in the
\* title or in the description.
C15_FindAllFilters ==
  Idle =>
    \A userId \in Users, currentPage \in 1..(MaxRows + 1), pageSize \in PageSizes,
       filter \in TaskFilters :
      \A rows \in RowOrders(userId, filter) :
        \A i \in Range(findAll(userId, currentPage, pageSize, filter, rows)) :
          /\ store[i].userId = userId
          /\ filter.status # Absent => store[i].status = filter.status
          /\ filter.priority # Absent => store[i].priority = filter.priority
          /\ filter.fromDate # NoDate => store[i].createdAt >= filter.fromDate
          /\ filter.toDate # NoDate => store[i].createdAt <= filter.toDate
          /\ filter.search # <<>> =>
               \/ Contains(store[i].title, filter.search)
               \/ Contains(store[i].description, filter.search)

\* the number of tasks, of whatever user, with value in column
Count(column, value) ==
  Cardinality({i \in DOMAIN store : store[i][column] = value})

-----------------------------------------------------------------------------
(* Properties of concurrent updates (SpecConc).                            *)

AllDone == \A c \in Callers : calls[c].pc = "done"

\* C17: whatever the interleaving of concurrent update() calls on one task,
\* once all of them have finished the status of the event queued last for
\* the task is the task's persisted status, and as many events were queued
\* for the task as there were changes of its persisted status.
C17_EventsMatchStore ==
  (calls # <<>> /\ AllDone) =>
    /\ queue # <<>> => queue[Len(queue)].status = store[TheTask].status
    /\ Len(queue) = Cardinality({c \in Callers : calls[c].changed})

-----------------------------------------------------------------------------
(* Properties of the requests (Spec), continued.                           *)

\* C18: every call of create, update, bulkUpdateStatus or bulkDelete that
\* obtains a query runner's connection releases it and leaves no transaction
\* open, on every path: success, NotFound, a failing publish, commit or
\* rollback, a failing connect or startTransaction.
C18_RunnerReleased ==
  lastCall.op \in {"create", "update", "bulkUpdateStatus", "bulkDelete",
                   "batch:complete", "batch:delete"}
    => /\ lastCall.acquired => lastCall.released
       /\ lastCall.txn # "open"

\* C19: a successful batch request reports as `affected` the number of task
\* records it changed: the existing tasks it set to COMPLETED for "complete",
\* the tasks it deleted for "delete".
C19_AffectedCount ==
  Idle =>
    \A ids \in IdLists :
      /\ \A f \in Faults(MaxTasks), ut \in FindIn(ids) :
           LET resp == batchProcess(ids, "complete", ut, f)
           IN resp.r.error = "none" =>
                resp.affected = Cardinality(Range(ids) \cap DOMAIN store)
      /\ \A f \in Faults(0) :
           LET resp == batchProcess(ids, "delete", <<>>, f)
           IN resp.r.error = "none" =>
                resp.affected
                  = Cardinality(DOMAIN store) - Cardinality(DOMAIN resp.r.store)

====
